---- MODULE Spec2Model ----
(***************************************************************************)
(* Model of src/oldclient.py: the batch pipeline that prepares, extracts,  *)
(* classifies and (on update failure) uploads the logs of each machine.    *)
(*                                                                         *)
(* A string is a sequence of code points.  A file name inside a machine's  *)
(* output directory is an integer whose order is the order sorted() gives  *)
(* the names: 1 stands for "ciDebug.log", 2 for "installSetLogs.log" and   *)
(* the larger numbers for further extracted artifacts.                     *)
(***************************************************************************)
EXTENDS Integers, Sequences, FiniteSets, TLC

\* ------------------------------------------------------------- bounds ----
MaxMachines == 2      \* machine directories under ./machines
MaxRunFiles == 2      \* files an extraction may leave in one output directory
MaxFiles == 10        \* files of the directory of a stand-alone upload call
MaxCalls == 3         \* calls of update_machine_status_counts by one process
MaxDelta == 2         \* largest count passed to update_machine_status_counts
MaxNameLen == 4       \* length of the strings given to sanitize_name
MaxApplications == 2  \* successive applications of sanitize_name
MaxInstances == 2     \* pipeline instances sharing the analytics collection
MaxStarted == 2       \* calls the instances make between them

\* ---------------------------------------------------------- constants ----
CiDebugLog == 1
InstallSetLog == 2
MaxAttempts == 3

\* "b1", "A", "a", "m_1", "M 1": the names the machine directories are drawn
\* from, in no particular order
NamePool == << <<98, 49>>, <<65>>, <<97>>, <<109, 95, 49>>, <<77, 32, 49>> >>

PoolNames == {NamePool[i] : i \in 1..Len(NamePool)}

\* ------------------------------------------------------ sanitize_name ----
IsAlnum(c) == (c \in 97..122) \/ (c \in 48..57)

\* name.lower(), on the ASCII letters
Lower(s) == [i \in 1..Len(s) |-> IF s[i] \in 65..90 THEN s[i] + 32 ELSE s[i]]

\* name.replace("_", "-").replace(" ", "-")
ReplaceUnderscoreSpace(s) ==
    [i \in 1..Len(s) |-> IF s[i] = 95 \/ s[i] = 32 THEN 45 ELSE s[i]]

RECURSIVE FilterValid(_)
FilterValid(s) ==
    IF s = <<>> THEN <<>>
    ELSE IF IsAlnum(Head(s)) \/ Head(s) = 46 \/ Head(s) = 45
         THEN <<Head(s)>> \o FilterValid(Tail(s))
         ELSE FilterValid(Tail(s))

RECURSIVE Collapse(_, _)
Collapse(s, c) ==
    IF Len(s) < 2 THEN s
    ELSE IF s[1] = c /\ s[2] = c THEN Collapse(Tail(s), c)
         ELSE <<Head(s)>> \o Collapse(Tail(s), c)

RECURSIVE LStrip(_)
LStrip(s) ==
    IF s # <<>> /\ Head(s) \in {46, 45} THEN LStrip(Tail(s)) ELSE s

RECURSIVE RStrip(_)
RStrip(s) ==
    IF s # <<>> /\ s[Len(s)] \in {46, 45}
    THEN RStrip(SubSeq(s, 1, Len(s) - 1)) ELSE s

\* re.match(r"^[a-z0-9]", name)
MatchStartAlnum(s) == s # <<>> /\ IsAlnum(s[1])

\* re.match(r"[a-z0-9]$", name): re.match anchors the pattern at position 0,
\* so it matches only a one-character alphanumeric name
MatchEndAlnum(s) == Len(s) = 1 /\ IsAlnum(s[1])

sanitize_name_NoCollapse(name) ==
    LET n1 == Lower(name)
        n2 == ReplaceUnderscoreSpace(n1)
        n3 == FilterValid(n2)
        n5 == RStrip(LStrip(n3))
        n6 == IF Len(n5) > 0 /\ ~MatchStartAlnum(n5) THEN <<97>> \o n5 ELSE n5
        n7 == IF Len(n6) > 0 /\ ~MatchEndAlnum(n6) THEN n6 \o <<122>> ELSE n6
    IN n7

sanitize_name(name) ==
    LET n1 == Lower(name)
        n2 == ReplaceUnderscoreSpace(n1)
        n3 == FilterValid(n2)
        n4 == Collapse(Collapse(n3, 45), 46)
        n5 == RStrip(LStrip(n4))
        n6 == IF Len(n5) > 0 /\ ~MatchStartAlnum(n5) THEN <<97>> \o n5 ELSE n5
        n7 == IF Len(n6) > 0 /\ ~MatchEndAlnum(n6) THEN n6 \o <<122>> ELSE n6
    IN n7

\* ------------------------------------------------------------ sorted() ----
RECURSIVE LexLess(_, _)
LexLess(a, b) ==
    IF a = <<>> THEN b # <<>>
    ELSE IF b = <<>> THEN FALSE
    ELSE IF Head(a) # Head(b) THEN Head(a) < Head(b)
    ELSE LexLess(Tail(a), Tail(b))

RECURSIVE SortedNames(_)
SortedNames(S) ==
    IF S = {} THEN <<>>
    ELSE LET m == CHOOSE x \in S : \A y \in S \ {x} : LexLess(x, y)
         IN <<m>> \o SortedNames(S \ {m})

RECURSIVE SortedFiles(_)
SortedFiles(S) ==
    IF S = {} THEN <<>>
    ELSE LET m == CHOOSE x \in S : \A y \in S : x <= y
         IN <<m>> \o SortedFiles(S \ {m})

\* --------------------------------------------------------------- state ----
VARIABLES
    \* main()
    pc, srcRoot, machines, idx, success_count, failure_count,
    prep_extract_failures, overall_success, is_update_success, ret, reported,
    \* local filesystem: ./output, its subdirectories, the NEEDS_MASTER marker
    rootExists, outDir, marker,
    \* object store and analytics record
    bucketExists, objects, dbRecord,
    \* the running upload_to_minio call
    upc, machine_name, total_files, file_count, upload_count, error_count,
    attempt, uret,
    \* observation of the calls made (history, never read by the program)
    slept, attempts_total, file_attempts, uploaded_files, bucket_check,
    objects0, hist, reason, sc0, fc0, pf0, exit_at, signal_calls,
    analytics_calls,
    \* a stand-alone use of sanitize_name: its argument and what the
    \* successive applications returned
    san_name, san_out,
    \* pipeline instances sharing the analytics collection: which of them
    \* run, where each is inside update_machine_status_counts, and what an
    \* observer of their calls has counted
    instances, inst, started, delta_sum, lost_calls

mainVars == <<pc, srcRoot, machines, idx, success_count, failure_count,
              prep_extract_failures, overall_success, is_update_success, ret,
              reported>>
fsVars == <<rootExists, outDir, marker>>
remoteVars == <<bucketExists, objects>>
uploadVars == <<upc, machine_name, total_files, file_count, upload_count,
                error_count, attempt, uret>>
uploadObs == <<slept, attempts_total, file_attempts, uploaded_files,
               bucket_check, objects0>>
runObs == <<hist, reason, sc0, fc0, pf0, exit_at, signal_calls,
            analytics_calls>>
instVars == <<instances, inst, started, delta_sum, lost_calls>>
callObs == <<san_name, san_out, instVars>>
vars == <<mainVars, fsVars, remoteVars, dbRecord, uploadVars, uploadObs, runObs,
          callObs>>

Absent == [present |-> FALSE, files |-> {}]
Dir(files) == [present |-> TRUE, files |-> files]

\* only the output root is tested
IsDir_RootOnly(m) == rootExists

\* os.path.isdir(os.path.join(base_output_dir_str, machine_name))
IsDir(m) == rootExists /\ outDir[m].present

\* the key made of the relative path alone
MinioPath_NoPrefix(m, file) == [prefix |-> <<>>, path |-> file]

\* the directory name used as it is
MinioPath_RawName(m, file) == [prefix |-> m, path |-> file]

\* f"{machine_prefix}/{rel_path}" of a file of the machine's directory
MinioPath(m, file) == [prefix |-> sanitize_name(m), path |-> file]

\* ----------------------------------------------------- upload_to_minio ----
UploadReturn(value) ==
    /\ upc' = "returned"
    /\ uret' = value

\* lines 214-230: client construction, then the directory check
UploadEnter ==
    /\ upc = "start"
    /\ UNCHANGED callObs
    /\ \E clientOk \in BOOLEAN :
         IF ~clientOk THEN UploadReturn(FALSE)
         ELSE IF ~IsDir(machine_name) THEN UploadReturn(FALSE)
         ELSE upc' = "bucket" /\ uret' = uret
    /\ slept' = FALSE
    /\ UNCHANGED <<machine_name, total_files, file_count, upload_count,
                   error_count, attempt, attempts_total, file_attempts,
                   uploaded_files, bucket_check, objects0>>
    /\ UNCHANGED <<mainVars, fsVars, remoteVars, dbRecord, runObs>>

\* lines 234-245: bucket_exists / make_bucket, either of which may raise
UploadBucket ==
    /\ upc = "bucket"
    /\ UNCHANGED callObs
    /\ \E raises \in BOOLEAN :
         IF raises
         THEN /\ UploadReturn(FALSE)
              /\ bucket_check' = "raised"
              /\ UNCHANGED bucketExists
         ELSE /\ upc' = "count"
              /\ uret' = uret
              /\ bucket_check' = "ok"
              /\ bucketExists' = TRUE
    /\ slept' = FALSE
    /\ UNCHANGED <<machine_name, total_files, file_count, upload_count,
                   error_count, attempt, attempts_total, file_attempts,
                   uploaded_files, objects0, objects>>
    /\ UNCHANGED <<mainVars, fsVars, dbRecord, runObs>>

\* lines 247-260: count the files, return True when there are none
UploadCount ==
    /\ upc = "count"
    /\ UNCHANGED callObs
    /\ total_files' = Cardinality(outDir[machine_name].files)
    /\ IF total_files' = 0 THEN UploadReturn(TRUE)
       ELSE upc' = "walk" /\ uret' = uret
    /\ upload_count' = 0
    /\ file_count' = 0
    /\ error_count' = 0
    /\ slept' = FALSE
    /\ UNCHANGED <<machine_name, attempt, attempts_total, file_attempts,
                   uploaded_files, bucket_check, objects0>>
    /\ UNCHANGED <<mainVars, fsVars, remoteVars, dbRecord, runObs>>

\* lines 263-279: the walk takes the next file in sorted order, or ends
UploadWalk ==
    /\ upc = "walk"
    /\ UNCHANGED callObs
    /\ IF file_count < Cardinality(outDir[machine_name].files)
       THEN /\ file_count' = file_count + 1
            /\ attempt' = 0
            /\ upc' = "attempt"
       ELSE /\ upc' = "final"
            /\ UNCHANGED <<file_count, attempt>>
    /\ slept' = FALSE
    /\ file_attempts' = 0
    /\ UNCHANGED <<machine_name, total_files, upload_count, error_count, uret,
                   attempts_total, uploaded_files, bucket_check, objects0>>
    /\ UNCHANGED <<mainVars, fsVars, remoteVars, dbRecord, runObs>>

\* for attempt in range(3)
AttemptInRange(a) == a < MaxAttempts

\* a retry allowed after the third attempt as well
RetryAllowed_Third(a) == a < 3

\* line 287: if attempt < 2 (sleep and retry), else re-raise
RetryAllowed(a) == a < 2

\* lines 281-295: one fput_object attempt on the current file
UploadAttempt ==
    /\ upc = "attempt"
    /\ UNCHANGED callObs
    /\ AttemptInRange(attempt)
    /\ attempts_total' = attempts_total + 1
    /\ file_attempts' = file_attempts + 1
    /\ LET file == SortedFiles(outDir[machine_name].files)[file_count]
       IN \E ok \in BOOLEAN :
            IF ok
            THEN /\ objects' = objects \cup {MinioPath(machine_name, file)}
                 /\ upload_count' = upload_count + 1
                 /\ uploaded_files' = uploaded_files \cup {file}
                 /\ upc' = "walk"
                 /\ slept' = FALSE
                 /\ UNCHANGED <<attempt, error_count>>
            ELSE IF RetryAllowed(attempt)
            THEN /\ slept' = TRUE
                 /\ attempt' = attempt + 1
                 /\ IF AttemptInRange(attempt + 1) THEN upc' = "attempt"
                                                   ELSE upc' = "walk"
                 /\ UNCHANGED <<objects, upload_count, error_count,
                                uploaded_files>>
            ELSE /\ error_count' = error_count + 1
                 /\ upc' = "walk"
                 /\ slept' = FALSE
                 /\ UNCHANGED <<objects, upload_count, attempt, uploaded_files>>
    /\ UNCHANGED <<machine_name, total_files, file_count, uret, bucket_check,
                   objects0, bucketExists>>
    /\ UNCHANGED <<mainVars, fsVars, dbRecord, runObs>>

\* a strict comparison in place of line 305
RateReached_Strict(uploaded, total) == uploaded * 100 > 80 * total

\* line 300 and line 305: (upload_count / total_files) * 100 >= 80.  The
\* float quotient and the exact one order against 80 alike for every count
\* a directory of this size can give, so the exact one is used.
RateReached(uploaded, total) == uploaded * 100 >= 80 * total

\* lines 298-319: the final report
UploadResult(uploaded, total) ==
    IF uploaded > 0 THEN RateReached(uploaded, total)
    ELSE IF total > 0 THEN FALSE
    ELSE TRUE

UploadFinal ==
    /\ upc = "final"
    /\ UNCHANGED callObs
    /\ UploadReturn(UploadResult(upload_count, total_files))
    /\ slept' = FALSE
    /\ UNCHANGED <<machine_name, total_files, file_count, upload_count,
                   error_count, attempt, attempts_total, file_attempts,
                   uploaded_files, bucket_check, objects0>>
    /\ UNCHANGED <<mainVars, fsVars, remoteVars, dbRecord, runObs>>

\* ---------------------------------------------------------------- main ----
\* " (upload)", the suffix of f"{machine_name} (upload)"
UploadSuffix == <<32, 40, 117, 112, 108, 111, 97, 100, 41>>

NoHist == [processed |-> 0, prep |-> "none", extract |-> "none",
           had_dir |-> FALSE, class |-> "none", uploads |-> 0,
           upret |-> "none", rm |-> "none"]

\* contents an extraction may leave in the machine's output directory
ExtractContents == SUBSET (1..MaxRunFiles)

\* the successful record and the failed_updates fields of the analytics record
Record(s, f) == [present |-> TRUE, successful_updates |-> s, failed_updates |-> f]
Missing == [present |-> FALSE, successful_updates |-> 0, failed_updates |-> 0]

Return(value, where) ==
    /\ pc' = "done"
    /\ ret' = value
    /\ exit_at' = where

\* the loop left after its first iteration
NextMachine_FirstOnly == idx' = idx /\ pc' = "after_loop"

\* the for statement of line 546 takes the next machine or ends the loop
NextMachine ==
    IF idx < Len(machines)
    THEN idx' = idx + 1 /\ pc' = "prepare"
    ELSE idx' = idx /\ pc' = "after_loop"

\* a failed bootstrap that lets the run go on
Bootstrap_Continue ==
    /\ pc = "bootstrap"
    /\ UNCHANGED callObs
    /\ \E ok \in BOOLEAN :
         IF ok THEN pc' = "cleanup" /\ ret' = ret /\ exit_at' = exit_at
         ELSE pc' = "cleanup" /\ ret' = FALSE /\ exit_at' = "bootstrap"
    /\ UNCHANGED <<srcRoot, machines, idx, success_count, failure_count,
                   prep_extract_failures, overall_success, is_update_success,
                   reported>>
    /\ UNCHANGED <<fsVars, remoteVars, dbRecord, uploadVars, uploadObs, hist,
                   reason, sc0, fc0, pf0, signal_calls, analytics_calls>>

\* lines 517-521: setup_virtual_environment()
Bootstrap ==
    /\ pc = "bootstrap"
    /\ UNCHANGED callObs
    /\ \E ok \in BOOLEAN :
         IF ok THEN pc' = "cleanup" /\ ret' = ret /\ exit_at' = exit_at
         ELSE Return(FALSE, "bootstrap")
    /\ UNCHANGED <<srcRoot, machines, idx, success_count, failure_count,
                   prep_extract_failures, overall_success, is_update_success,
                   reported>>
    /\ UNCHANGED <<fsVars, remoteVars, dbRecord, uploadVars, uploadObs, hist,
                   reason, sc0, fc0, pf0, signal_calls, analytics_calls>>

\* lines 523-527 and cleanup_directories (328-363): the output root is removed
\* and recreated; rmtree or makedirs may raise, which main only warns about
Cleanup ==
    /\ pc = "cleanup"
    /\ \E outcome \in {"ok", "rmtree_raises", "makedirs_raises"} :
         CASE outcome = "ok" ->
                /\ rootExists' = TRUE
                /\ outDir' = [n \in PoolNames |-> Absent]
           [] outcome = "rmtree_raises" ->
                /\ rootExists
                /\ UNCHANGED <<rootExists, outDir>>
           [] outcome = "makedirs_raises" ->
                /\ rootExists' = FALSE
                /\ outDir' = [n \in PoolNames |-> Absent]
    /\ pc' = "discover"
    /\ UNCHANGED callObs
    /\ UNCHANGED <<srcRoot, machines, idx, success_count, failure_count,
                   prep_extract_failures, overall_success, is_update_success,
                   ret, reported, marker>>
    /\ UNCHANGED <<remoteVars, dbRecord, uploadVars, uploadObs, runObs>>

\* lines 532-546: the machines are the subdirectories of the source root
Discover ==
    /\ pc = "discover"
    /\ UNCHANGED callObs
    /\ IF ~srcRoot.present
       THEN /\ Return(FALSE, "no_source")
            /\ UNCHANGED <<machines, idx, overall_success, prep_extract_failures>>
       ELSE /\ machines' = SortedNames(srcRoot.dirs)
            /\ ret' = ret
            /\ exit_at' = exit_at
            /\ IF srcRoot.dirs = {}
               THEN /\ overall_success' = TRUE
                    /\ pc' = "report"
                    /\ UNCHANGED <<idx, prep_extract_failures>>
               ELSE /\ prep_extract_failures' = <<>>
                    /\ idx' = 1
                    /\ pc' = "prepare"
                    /\ UNCHANGED overall_success
    /\ UNCHANGED <<srcRoot, success_count, failure_count, is_update_success,
                   reported>>
    /\ UNCHANGED <<fsVars, remoteVars, dbRecord, uploadVars, uploadObs, hist,
                   reason, sc0, fc0, pf0, signal_calls, analytics_calls>>

\* lines 547-559: shared_prepare_machine(machine_path)
Prepare ==
    /\ pc = "prepare"
    /\ UNCHANGED callObs
    /\ LET m == machines[idx] IN
       \E prep_success \in BOOLEAN :
         /\ hist' = [hist EXCEPT ![m].processed = @ + 1,
                                 ![m].prep = IF prep_success THEN "ok" ELSE "fail",
                                 ![m].had_dir = IsDir(m)]
         /\ IF ~prep_success
            THEN /\ prep_extract_failures' = Append(prep_extract_failures, m)
                 /\ NextMachine
            ELSE /\ pc' = "extract"
                 /\ UNCHANGED <<prep_extract_failures, idx>>
    /\ sc0' = success_count
    /\ fc0' = failure_count
    /\ pf0' = Len(prep_extract_failures)
    /\ UNCHANGED <<srcRoot, machines, success_count, failure_count,
                   overall_success, is_update_success, ret, reported>>
    /\ reason' = "none"
    /\ UNCHANGED <<fsVars, remoteVars, dbRecord, uploadVars, uploadObs,
                   exit_at, signal_calls, analytics_calls>>

\* lines 561-570: shared_run_log_extraction(...), an external call: it
\* returns a boolean and may or may not have produced the machine's output
\* directory (the code checks for it again at 226 and at 585)
Extract ==
    /\ pc = "extract"
    /\ UNCHANGED callObs
    /\ LET m == machines[idx] IN
       \E extract_success \in BOOLEAN :
         /\ IF extract_success
            THEN /\ \E created \in BOOLEAN :
                      IF created
                      THEN /\ \E content \in ExtractContents :
                                outDir' = [outDir EXCEPT ![m] = Dir(content)]
                           /\ rootExists' = TRUE
                      ELSE UNCHANGED <<outDir, rootExists>>
                 /\ pc' = "classify"
                 /\ UNCHANGED <<prep_extract_failures, idx>>
            ELSE /\ \E created \in BOOLEAN :
                      IF created
                      THEN /\ outDir' = [outDir EXCEPT ![m] = Dir({})]
                           /\ rootExists' = TRUE
                      ELSE UNCHANGED <<outDir, rootExists>>
                 /\ prep_extract_failures' = Append(prep_extract_failures, m)
                 /\ NextMachine
         /\ hist' = [hist EXCEPT ![m].extract =
                                     IF extract_success THEN "ok" ELSE "fail",
                                 ![m].had_dir = rootExists' /\ outDir'[m].present]
    /\ UNCHANGED <<srcRoot, machines, success_count, failure_count,
                   overall_success, is_update_success, ret, reported, marker>>
    /\ UNCHANGED <<remoteVars, dbRecord, uploadVars, uploadObs, reason, sc0,
                   fc0, pf0, exit_at, signal_calls, analytics_calls>>

\* check_firmware_update_status (416-460): the reason for its result
ClassifyReasons(m) ==
    IF InstallSetLog \notin outDir[m].files \/ ~IsDir(m) THEN {"missing_install"}
    ELSE IF CiDebugLog \notin outDir[m].files THEN {"missing_cidebug"}
    ELSE {"marker", "nomarker", "raises"}

\* a missing ciDebug.log taken for a success
StatusOf_MissingOk(r) == r \in {"marker", "missing_cidebug"}

\* an exception of the classifier taken for a success
StatusOf_RaisesOk(r) == r \in {"marker", "raises"}

\* line 444: "✅" in result
StatusOf(r) == r = "marker"

\* lines 572-581 and 598-602: classify, count, and skip or start the upload
Classify ==
    /\ pc = "classify"
    /\ UNCHANGED callObs
    /\ LET m == machines[idx] IN
       \E r \in ClassifyReasons(m) :
         /\ reason' = r
         /\ is_update_success' = StatusOf(r)
         /\ IF is_update_success'
            THEN /\ success_count' = success_count + 1
                 /\ pc' = "remove"
                 /\ hist' = [hist EXCEPT ![m].class = "success"]
                 /\ UNCHANGED <<failure_count, uploadVars, uploadObs>>
            ELSE /\ failure_count' = failure_count + 1
                 /\ pc' = "upload"
                 /\ hist' = [hist EXCEPT ![m].class = "failure",
                                         ![m].uploads = @ + 1]
                 /\ upc' = "start"
                 /\ machine_name' = m
                 /\ slept' = FALSE
                 /\ attempts_total' = 0
                 /\ file_attempts' = 0
                 /\ uploaded_files' = {}
                 /\ bucket_check' = "none"
                 /\ objects0' = objects
                 /\ UNCHANGED <<success_count, total_files, file_count,
                                upload_count, error_count, attempt, uret>>
    /\ UNCHANGED <<srcRoot, machines, idx, prep_extract_failures,
                   overall_success, ret, reported>>
    /\ UNCHANGED <<fsVars, remoteVars, dbRecord, sc0, fc0, pf0, exit_at,
                   signal_calls, analytics_calls>>

\* the removal forgotten
RemovedTree_Noop(dirs, m) == dirs

\* the whole output root removed
RemovedTree_All(dirs, m) == [n \in DOMAIN dirs |-> Absent]

\* line 587: shutil.rmtree(machine_output_path)
RemovedTree(dirs, m) == [dirs EXCEPT ![m] = Absent]

\* lines 582-597: remove the output directory of a successful machine;
\* an exception of rmtree is logged and swallowed
RemoveOutput ==
    /\ pc = "remove"
    /\ UNCHANGED callObs
    /\ LET m == machines[idx] IN
       IF IsDir(m)
       THEN \E removed \in BOOLEAN :
              /\ outDir' = IF removed THEN RemovedTree(outDir, m) ELSE outDir
              /\ hist' = [hist EXCEPT ![m].rm = IF removed THEN "ok" ELSE "raised"]
       ELSE /\ hist' = [hist EXCEPT ![m].rm = "missing"]
            /\ UNCHANGED outDir
    /\ NextMachine
    /\ UNCHANGED <<srcRoot, machines, success_count, failure_count,
                   prep_extract_failures, overall_success, is_update_success,
                   ret, reported, rootExists, marker>>
    /\ UNCHANGED <<remoteVars, dbRecord, uploadVars, uploadObs, reason, sc0,
                   fc0, pf0, exit_at, signal_calls, analytics_calls>>

\* a failed upload not recorded
FailuresAfterUpload_Never(failures, m, upload_success) == failures

\* the failed upload recorded under the bare machine name
FailuresAfterUpload_NoSuffix(failures, m, upload_success) ==
    IF ~upload_success THEN Append(failures, m) ELSE failures

\* lines 604-606: a failed upload is appended to the failure list
FailuresAfterUpload(failures, m, upload_success) ==
    IF ~upload_success THEN Append(failures, m \o UploadSuffix) ELSE failures

\* lines 602-609: the result of upload_to_minio
AfterUpload ==
    /\ pc = "upload"
    /\ UNCHANGED callObs
    /\ upc = "returned"
    /\ LET m == machines[idx] IN
         /\ hist' = [hist EXCEPT ![m].upret = IF uret THEN "True" ELSE "False"]
         /\ prep_extract_failures' =
              FailuresAfterUpload(prep_extract_failures, m, uret)
    /\ NextMachine
    \* the frame of the call is gone
    /\ upc' = "idle"
    /\ machine_name' = <<>>
    /\ total_files' = 0
    /\ file_count' = 0
    /\ upload_count' = 0
    /\ error_count' = 0
    /\ attempt' = 0
    /\ uret' = FALSE
    /\ slept' = FALSE
    /\ attempts_total' = 0
    /\ file_attempts' = 0
    /\ uploaded_files' = {}
    /\ bucket_check' = "none"
    /\ objects0' = {}
    /\ UNCHANGED <<srcRoot, machines, success_count, failure_count,
                   overall_success, is_update_success, ret, reported>>
    /\ UNCHANGED <<fsVars, remoteVars, dbRecord, reason, sc0, fc0, pf0, exit_at,
                   signal_calls, analytics_calls>>

\* the failure list ignored
OverallAfterLoop_Keep(failures, current) == current

\* lines 611-613: if prep_extract_failures: overall_success = False
OverallAfterLoop(failures, current) ==
    IF failures # <<>> THEN FALSE ELSE current

AfterLoop ==
    /\ pc = "after_loop"
    /\ UNCHANGED callObs
    /\ overall_success' = OverallAfterLoop(prep_extract_failures, overall_success)
    /\ pc' = "report"
    /\ UNCHANGED <<srcRoot, machines, idx, success_count, failure_count,
                   prep_extract_failures, is_update_success, ret, reported>>
    /\ UNCHANGED <<fsVars, remoteVars, dbRecord, uploadVars, uploadObs, runObs>>

\* lines 629-633: the report reads the marker as it is now
Report ==
    /\ pc = "report"
    /\ UNCHANGED callObs
    /\ reported' = IF marker THEN "will_run" ELSE "skipped"
    /\ pc' = "analytics"
    /\ UNCHANGED <<srcRoot, machines, idx, success_count, failure_count,
                   prep_extract_failures, overall_success, is_update_success,
                   ret>>
    /\ UNCHANGED <<fsVars, remoteVars, dbRecord, uploadVars, uploadObs, runObs>>

\* the pipeline instances and the state of one between its calls
Instances == 1..MaxInstances
Idle(outcome) ==
    [at |-> "idle", status_doc |-> "unread", s |-> 0, f |-> 0,
     outcome |-> outcome]

\* find_one({"_id": ...}): the document, or None
find_one(rec) == IF rec.present THEN "some" ELSE "none"

\* insert_one stores over a document of the same _id
DuplicateKey_Never(rec) == FALSE

\* insert_one raises DuplicateKeyError when the _id is already stored
DuplicateKey(rec) == rec.present

insert_one(rec, s, f) == Record(s, f)

\* update_one with $inc, no upsert: a missing document matches nothing
update_one(rec, s, f) ==
    IF rec.present
    THEN Record(rec.successful_updates + s, rec.failed_updates + f)
    ELSE rec

\* the record replaced by the deltas of the call
StoreCounts_Overwrite(rec, s, f) == Record(s, f)

\* lines 386-405 without a store error: insert_one when find_one gave None,
\* update_one with $inc otherwise
StoreCounts(rec, s, f) ==
    IF ~rec.present THEN Record(s, f)
    ELSE Record(rec.successful_updates + s, rec.failed_updates + f)

\* update_machine_status_counts (368-414): the store operations succeed, or
\* one of them raises, which the handler of 410-414 logs and swallows; the
\* function returns None either way
update_machine_status_counts(s, f) ==
    \E ok \in BOOLEAN :
      /\ dbRecord' = IF ok THEN StoreCounts(dbRecord, s, f) ELSE dbRecord
      /\ analytics_calls' =
           Append(analytics_calls, [s |-> s, f |-> f, ok |-> ok])

\* the call made for a run without any classified machine as well
AnalyticsDue_Always(s, f) == TRUE

\* line 636: if success_count > 0 or failure_count > 0
AnalyticsDue(s, f) == s > 0 \/ f > 0

\* lines 635-639
Analytics ==
    /\ pc = "analytics"
    /\ UNCHANGED callObs
    /\ IF AnalyticsDue(success_count, failure_count)
       THEN update_machine_status_counts(success_count, failure_count)
       ELSE UNCHANGED <<analytics_calls, dbRecord>>
    /\ pc' = "trigger"
    /\ UNCHANGED <<srcRoot, machines, idx, success_count, failure_count,
                   prep_extract_failures, overall_success, is_update_success,
                   ret, reported>>
    /\ UNCHANGED <<fsVars, remoteVars, uploadVars, uploadObs, hist, reason,
                   sc0, fc0, pf0, exit_at, signal_calls>>

\* line 642-643: the subdirectories of the output root
OutputDirs == {n \in PoolNames : outDir[n].present}

\* the marker never asked for
SignalDecision_Never(output_empty, failures) == FALSE

\* the empty output root not looked at
SignalDecision_IgnoreEmpty(output_empty, failures) == failures > 0

\* lines 645-657: the argument of write_master_signal
SignalDecision(output_empty, failures) ==
    IF output_empty THEN FALSE
    ELSE IF failures > 0 THEN TRUE
    ELSE FALSE

\* write_master_signal (465-498) when the file operation succeeds
WriteSignal(should_run_master) == should_run_master

\* a failed file operation of the marker taken for a failure of the run
RunResult_NeedsSignal(overall, signal_ok) == overall /\ signal_ok

\* lines 648-664: what write_master_signal returned is dropped, main
\* returns overall_success
RunResult(overall, signal_ok) == overall

\* lines 641-669: listing a missing output root raises, which the handler of
\* line 666 turns into False; otherwise the trigger is decided and written
\* (the file operation may fail, which write_master_signal swallows)
Trigger ==
    /\ pc = "trigger"
    /\ UNCHANGED callObs
    /\ IF ~rootExists
       THEN /\ Return(FALSE, "listing")
            /\ UNCHANGED <<marker, signal_calls>>
       ELSE LET arg == SignalDecision(OutputDirs = {}, failure_count) IN
            \E ok \in BOOLEAN :
              /\ marker' = IF ok THEN WriteSignal(arg) ELSE marker
              /\ signal_calls' =
                   Append(signal_calls, [arg |-> arg, ok |-> ok])
              /\ Return(RunResult(overall_success, ok), "end")
    /\ UNCHANGED <<srcRoot, machines, idx, success_count, failure_count,
                   prep_extract_failures, overall_success, is_update_success,
                   reported, rootExists, outDir>>
    /\ UNCHANGED <<remoteVars, dbRecord, uploadVars, uploadObs, hist, reason,
                   sc0, fc0, pf0, analytics_calls>>

\* ------------------------------------------------------- specifications ----
\* the first n names of the pool
FirstNames(n) == {NamePool[i] : i \in 1..n}

StaleDir == [n \in PoolNames |->
                IF n = NamePool[2] THEN Dir({CiDebugLog, InstallSetLog}) ELSE Absent]

InitCommon ==
    /\ machines = <<>>
    /\ idx = 0
    /\ success_count = 0
    /\ failure_count = 0
    /\ prep_extract_failures = <<>>
    /\ overall_success = TRUE
    /\ is_update_success = FALSE
    /\ ret = FALSE
    /\ reported = "none"
    /\ objects = {}
    /\ total_files = 0
    /\ file_count = 0
    /\ upload_count = 0
    /\ error_count = 0
    /\ attempt = 0
    /\ uret = FALSE
    /\ slept = FALSE
    /\ attempts_total = 0
    /\ file_attempts = 0
    /\ uploaded_files = {}
    /\ bucket_check = "none"
    /\ objects0 = {}
    /\ hist = [n \in PoolNames |-> NoHist]
    /\ reason = "none"
    /\ sc0 = 0
    /\ fc0 = 0
    /\ pf0 = 0
    /\ exit_at = "none"
    /\ signal_calls = <<>>
    /\ analytics_calls = <<>>
    /\ san_out = <<>>
    /\ inst = [i \in Instances |-> Idle("none")]
    /\ started = 0
    /\ delta_sum = [s |-> 0, f |-> 0]
    /\ lost_calls = 0

\* a run of main(): the state of the disk and of the stores before it
Init ==
    /\ InitCommon
    /\ pc = "bootstrap"
    /\ upc = "idle"
    /\ machine_name = <<>>
    /\ \E n \in 0..MaxMachines, present \in BOOLEAN :
         srcRoot = [present |-> present, dirs |-> IF present THEN FirstNames(n) ELSE {}]
    /\ rootExists \in BOOLEAN
    /\ outDir \in IF rootExists THEN {[n \in PoolNames |-> Absent], StaleDir}
                  ELSE {[n \in PoolNames |-> Absent]}
    /\ marker \in BOOLEAN
    /\ bucketExists = FALSE
    /\ dbRecord = Missing
    /\ san_name = <<>>
    /\ instances = {}

Next ==
    \/ Bootstrap
    \/ Cleanup
    \/ Discover
    \/ Prepare
    \/ Extract
    \/ Classify
    \/ RemoveOutput
    \/ UploadEnter
    \/ UploadBucket
    \/ UploadCount
    \/ UploadWalk
    \/ UploadAttempt
    \/ UploadFinal
    \/ AfterUpload
    \/ AfterLoop
    \/ Report
    \/ Analytics
    \/ Trigger

Spec == Init /\ [][Next]_vars

\* a single call upload_to_minio(machine_name, "./output") on any disk state
InitUpload ==
    /\ InitCommon
    /\ pc = "idle"
    /\ upc = "start"
    /\ srcRoot = [present |-> FALSE, dirs |-> {}]
    /\ machine_name \in {NamePool[1], NamePool[4]}
    /\ rootExists \in BOOLEAN
    /\ \E n \in 0..MaxFiles, present \in BOOLEAN :
         outDir = [m \in PoolNames |->
                     IF m = machine_name /\ present /\ rootExists
                     THEN Dir(1..n) ELSE Absent]
    /\ marker = FALSE
    /\ bucketExists \in BOOLEAN
    /\ dbRecord = Missing
    /\ san_name = <<>>
    /\ instances = {}

NextUpload ==
    \/ UploadEnter
    \/ UploadBucket
    \/ UploadCount
    \/ UploadWalk
    \/ UploadAttempt
    \/ UploadFinal

SpecUpload == InitUpload /\ [][NextUpload]_vars

\* one process calling update_machine_status_counts(s, f) several times on
\* a store that holds no record yet
InitCounts ==
    /\ InitCommon
    /\ pc = "idle"
    /\ upc = "idle"
    /\ machine_name = <<>>
    /\ srcRoot = [present |-> FALSE, dirs |-> {}]
    /\ rootExists = FALSE
    /\ outDir = [n \in PoolNames |-> Absent]
    /\ marker = FALSE
    /\ bucketExists = FALSE
    /\ dbRecord = Missing
    /\ san_name = <<>>
    /\ instances = {}

CountsCall ==
    /\ pc = "idle"
    /\ Len(analytics_calls) < MaxCalls
    /\ \E s, f \in 0..MaxDelta : update_machine_status_counts(s, f)
    /\ UNCHANGED <<mainVars, fsVars, remoteVars, uploadVars, uploadObs, hist,
                   reason, sc0, fc0, pf0, exit_at, signal_calls, callObs>>

NextCounts == CountsCall

SpecCounts == InitCounts /\ [][NextCounts]_vars

\* several pipeline instances, each calling update_machine_status_counts on
\* the same collection; the steps of one call (find_one, then insert_one or
\* update_one) interleave with the steps of the other instances' calls
InitInstances ==
    /\ InitCommon
    /\ pc = "idle"
    /\ upc = "idle"
    /\ machine_name = <<>>
    /\ srcRoot = [present |-> FALSE, dirs |-> {}]
    /\ rootExists = FALSE
    /\ outDir = [n \in PoolNames |-> Absent]
    /\ marker = FALSE
    /\ bucketExists = FALSE
    /\ dbRecord = Missing
    /\ san_name = <<>>
    /\ instances \in {1..n : n \in 1..MaxInstances}

\* lines 372-386: the call connects and reads the record into status_doc;
\* an error of the client or of find_one is logged and swallowed (410-414)
FindOne(i) ==
    /\ pc = "idle"
    /\ i \in instances
    /\ inst[i].at = "idle"
    /\ started < MaxStarted
    /\ started' = started + 1
    /\ \E s, f \in 0..MaxDelta, ok \in BOOLEAN :
          inst' = [inst EXCEPT ![i] =
                     IF ok THEN [at |-> "found", status_doc |-> find_one(dbRecord),
                                 s |-> s, f |-> f, outcome |-> "none"]
                     ELSE Idle("error")]
    /\ UNCHANGED <<mainVars, fsVars, remoteVars, dbRecord, uploadVars,
                   uploadObs, runObs, san_name, san_out, instances,
                   delta_sum, lost_calls>>

\* lines 388-414: insert_one when status_doc is None, update_one otherwise;
\* a store error, the duplicate key of insert_one included, is logged and
\* swallowed and the call returns None
WriteCounts(i) ==
    /\ pc = "idle"
    /\ inst[i].at = "found"
    /\ \E ok \in BOOLEAN :
          LET call == inst[i]
              dup == ok /\ call.status_doc = "none" /\ DuplicateKey(dbRecord)
              done == ok /\ ~dup
          IN /\ dbRecord' =
                   IF ~done THEN dbRecord
                   ELSE IF call.status_doc = "none"
                        THEN insert_one(dbRecord, call.s, call.f)
                        ELSE update_one(dbRecord, call.s, call.f)
             /\ inst' = [inst EXCEPT ![i] =
                           Idle(IF done THEN "stored"
                                ELSE IF dup THEN "duplicate" ELSE "error")]
             /\ delta_sum' = IF ok THEN [s |-> delta_sum.s + call.s,
                                         f |-> delta_sum.f + call.f]
                             ELSE delta_sum
             /\ lost_calls' = IF dup THEN lost_calls + 1 ELSE lost_calls
    /\ UNCHANGED <<mainVars, fsVars, remoteVars, uploadVars, uploadObs, runObs,
                   san_name, san_out, instances, started>>

NextInstances ==
    \/ \E i \in Instances : FindOne(i)
    \/ \E i \in Instances : WriteCounts(i)

SpecInstances == InitInstances /\ [][NextInstances]_vars

\* "a", "z", "B", "1", "_", " ", "-", ".", "$": a letter, the appended
\* letter, an upper-case letter, a digit, the two replaced characters, the
\* two kept punctuation characters and a character that is dropped
NameAlphabet == {97, 122, 66, 49, 95, 32, 45, 46, 36}

\* "My_Machine 01"
ExampleName == <<77, 121, 95, 77, 97, 99, 104, 105, 110, 101, 32, 48, 49>>

\* the strings sanitize_name is applied to
InputNames ==
    UNION {[1..n -> NameAlphabet] : n \in 0..MaxNameLen}
        \cup PoolNames \cup {ExampleName}

\* sanitize_name(name) applied to a string, then to its own result
InitSanitize ==
    /\ InitCommon
    /\ pc = "idle"
    /\ upc = "idle"
    /\ machine_name = <<>>
    /\ srcRoot = [present |-> FALSE, dirs |-> {}]
    /\ rootExists = FALSE
    /\ outDir = [n \in PoolNames |-> Absent]
    /\ marker = FALSE
    /\ bucketExists = FALSE
    /\ dbRecord = Missing
    /\ san_name \in InputNames
    /\ instances = {}

SanitizeCall ==
    /\ pc = "idle"
    /\ Len(san_out) < MaxApplications
    /\ LET name == IF san_out = <<>> THEN san_name ELSE san_out[Len(san_out)]
       IN san_out' = Append(san_out, sanitize_name(name))
    /\ UNCHANGED <<mainVars, fsVars, remoteVars, dbRecord, uploadVars,
                   uploadObs, runObs, san_name, instVars>>

NextSanitize == SanitizeCall

SpecSanitize == InitSanitize /\ [][NextSanitize]_vars

\* a run of main() over three machine directories ("A", "a" and "b1") on a
\* disk whose output root is empty
ScenarioNames == {NamePool[1], NamePool[2], NamePool[3]}

InitEndToEnd ==
    /\ InitCommon
    /\ pc = "bootstrap"
    /\ upc = "idle"
    /\ machine_name = <<>>
    /\ srcRoot = [present |-> TRUE, dirs |-> ScenarioNames]
    /\ rootExists = TRUE
    /\ outDir = [n \in PoolNames |-> Absent]
    /\ marker \in BOOLEAN
    /\ bucketExists = FALSE
    /\ dbRecord = Missing
    /\ san_name = <<>>
    /\ instances = {}

SpecEndToEnd == InitEndToEnd /\ [][Next]_vars

\* --------------------------------------------------------------- claims ----
\* what one upload_to_minio call found and did, as an observer counts it
InCall == upc # "idle"
UploadDirExists == InCall /\ rootExists /\ outDir[machine_name].present
UploadTotal == IF InCall THEN Cardinality(outDir[machine_name].files) ELSE 0
UploadedNow == Cardinality(uploaded_files)
UploadCompleted == upc = "returned" /\ UploadDirExists /\ bucket_check = "ok"

\* C1: a call whose directory exists and whose bucket check succeeded returns
\* True exactly when there were no files or at least 80% of the files found
\* were uploaded by some attempt (8 of 10 True, 7 of 10 False, 0 of N False).
C1_UploadTrueIffRate ==
    UploadCompleted =>
        (uret <=> (UploadTotal = 0 \/ 5 * UploadedNow >= 4 * UploadTotal))

C1_Witness ==
    UploadCompleted /\ UploadTotal = 10 /\ UploadedNow = 8 /\ uret

\* C2: every file gets at most 3 fput_object attempts and none after a
\* success; a sleep follows each failed attempt but the third; a file is
\* counted failed only after exactly 3 failed attempts, after which the walk
\* goes on, so that every file is attempted and the call makes at most
\* 3 x total attempts.
C2_State ==
    /\ file_attempts <= 3
    /\ attempts_total <= 3 * UploadTotal
    /\ UploadCompleted => UploadedNow + error_count = UploadTotal

C2_Step ==
    LET attempted == attempts_total' = attempts_total + 1
        file == SortedFiles(outDir[machine_name].files)[file_count]
        failed == attempted /\ uploaded_files' = uploaded_files
    IN /\ attempted => file \notin uploaded_files /\ file_attempts' = file_attempts + 1
       /\ (attempted /\ ~failed) => (upc' = "walk" /\ ~slept')
       /\ failed => (slept' <=> file_attempts' < 3)
       /\ (failed /\ file_attempts' < 3) =>
             (upc' = "attempt" /\ file_count' = file_count /\ error_count' = error_count)
       /\ (failed /\ file_attempts' = 3) =>
             (upc' = "walk" /\ error_count' = error_count + 1)
       /\ (upc = "attempt" /\ error_count' # error_count) =>
             (failed /\ file_attempts' = 3)
       /\ (upc = "walk" /\ upc' = "attempt") =>
             (file_count' = file_count + 1 /\ file_attempts' = 0)

C2_BoundedRetry == []C2_State /\ [][C2_Step]_vars

C2_Witness ==
    upc = "walk" /\ file_count = 2 /\ error_count = 1 /\ uploaded_files = {2}
    /\ attempts_total = 6

\* C3: when the machine's output directory does not exist the call returns
\* False having made no bucket check or creation, no fput_object attempt and
\* no counter update, and the object store is as it was.
C3_NoDirectoryNoEffect ==
    (upc = "returned" /\ ~UploadDirExists) =>
        /\ ~uret
        /\ bucket_check = "none"
        /\ attempts_total = 0
        /\ objects = objects0
        /\ total_files = 0 /\ file_count = 0
        /\ upload_count = 0 /\ error_count = 0

C3_Witness ==
    upc = "returned" /\ rootExists /\ ~outDir[machine_name].present /\ ~uret

\* the machine whose iteration of the loop of line 546 has just ended; sc0,
\* fc0, pf0 and reason still describe that iteration
IterEnded == pc = "after_loop" \/ (pc = "prepare" /\ idx > 1)
LastDone == IF pc = "after_loop" THEN machines[idx] ELSE machines[idx - 1]
Machines == {machines[i] : i \in 1..Len(machines)}
RunEnded == pc = "done" /\ exit_at = "end"

\* C4 as stated: a machine classified successful adds exactly 1 to
\* success_count and 0 to failure_count, is not uploaded, and its output
\* directory is deleted.
C4_AsStated ==
    (IterEnded /\ reason = "marker") =>
        /\ success_count = sc0 + 1
        /\ failure_count = fc0
        /\ hist[LastDone].uploads = 0
        /\ ~outDir[LastDone].present

\* C4, amended: a machine classified successful adds exactly 1 to
\* success_count and 0 to failure_count and is not uploaded; its output
\* directory is deleted unless rmtree raises, in which case it remains.
C4_SuccessBranch ==
    (IterEnded /\ reason = "marker") =>
        /\ success_count = sc0 + 1
        /\ failure_count = fc0
        /\ hist[LastDone].uploads = 0
        /\ hist[LastDone].rm \in {"ok", "raised"}
        /\ outDir[LastDone].present <=> hist[LastDone].rm = "raised"

C4_Witness ==
    IterEnded /\ reason = "marker" /\ hist[LastDone].rm = "ok"
    /\ ~outDir[LastDone].present /\ success_count = 1

MissingLog == {"missing_install", "missing_cidebug"}

\* C5 as stated: when installSetLogs.log or ciDebug.log is missing the update
\* is counted as failed and no upload is attempted for the machine.
C5_AsStated ==
    (IterEnded /\ reason \in MissingLog) =>
        /\ failure_count = fc0 + 1
        /\ hist[LastDone].uploads = 0

\* C5, amended: when installSetLogs.log or ciDebug.log is missing the update
\* is counted as failed (failure_count + 1, success_count unchanged) and
\* upload_to_minio is called once for the machine.
C5_MissingLogUploads ==
    (IterEnded /\ reason \in MissingLog) =>
        /\ failure_count = fc0 + 1
        /\ success_count = sc0
        /\ hist[LastDone].uploads = 1
        /\ hist[LastDone].upret # "none"

C5_Witness ==
    IterEnded /\ reason = "missing_cidebug" /\ hist[LastDone].uploads = 1
    /\ InstallSetLog \in outDir[LastDone].files

FailureReasons == MissingLog \cup {"raises", "nomarker"}

\* C6: a missing log, an exception of the classifier and a result without
\* the marker all count one failed update and call upload_to_minio exactly
\* once; and upload_to_minio is called for a machine in these cases only,
\* never after a failed preparation or extraction or a successful update.
C6_State ==
    /\ (IterEnded /\ reason \in FailureReasons) =>
          /\ failure_count = fc0 + 1
          /\ success_count = sc0
          /\ hist[LastDone].uploads = 1
    /\ \A m \in PoolNames :
          /\ hist[m].uploads <= 1
          /\ hist[m].uploads = 1 =>
                /\ hist[m].prep = "ok"
                /\ hist[m].extract = "ok"
                /\ hist[m].class = "failure"

C6_Step ==
    (upc # "start" /\ upc' = "start") =>
        /\ reason' \in FailureReasons
        /\ machine_name' = machines[idx]
        /\ failure_count' = failure_count + 1

C6_FailureAlwaysUploads == []C6_State /\ [][C6_Step]_vars

C6_Witness ==
    IterEnded /\ reason = "raises" /\ hist[LastDone].uploads = 1
    /\ failure_count = fc0 + 1

\* C7: whatever upload_to_minio returns for a machine classified failed,
\* failure_count grows by exactly 1 and success_count by 0; a False result
\* only appends "<machine> (upload)" to the failure list, which makes the
\* run's result False.
C7_UploadResultKeepsCounts ==
    /\ (IterEnded /\ hist[LastDone].upret # "none") =>
          /\ failure_count = fc0 + 1
          /\ success_count = sc0
          /\ IF hist[LastDone].upret = "False"
             THEN /\ Len(prep_extract_failures) = pf0 + 1
                  /\ prep_extract_failures[pf0 + 1] = LastDone \o UploadSuffix
             ELSE Len(prep_extract_failures) = pf0
    /\ (RunEnded /\ \E m \in PoolNames : hist[m].upret = "False") => ~ret

C7_Witness ==
    RunEnded /\ ~ret /\ Len(prep_extract_failures) = 1
    /\ \E m \in Machines : /\ hist[m].upret = "False"
                           /\ prep_extract_failures[1] = m \o UploadSuffix

\* C8 as stated: at the end of a run a machine's output directory is absent
\* from the output root if and only if its update was classified successful.
C8_AsStated ==
    RunEnded =>
        \A m \in Machines : ~outDir[m].present <=> hist[m].class = "success"

\* C8, amended: the machine loop removes an output directory only in the
\* classified-successful branch, and only the machine's own; so at the end of
\* a run a machine's directory is present if and only if one existed when
\* its preparation failed or its extraction ended (left by a failed cleanup
\* or produced by the extraction) and it was not removed because the update
\* was classified successful and rmtree did not raise.
C8_State ==
    RunEnded =>
        \A m \in Machines :
            outDir[m].present <=>
                (hist[m].had_dir /\ ~(hist[m].class = "success" /\ hist[m].rm = "ok"))

C8_Step ==
    \A n \in PoolNames :
        (outDir[n].present /\ ~outDir'[n].present) =>
            \/ pc = "cleanup"
            \/ pc = "remove" /\ n = machines[idx] /\ hist[n].class = "success"

C8_RemovedOnlyOnSuccess == []C8_State /\ [][C8_Step]_vars

C8_Witness ==
    RunEnded /\ \E m1, m2 \in Machines :
        /\ hist[m1].class = "success" /\ ~outDir[m1].present
        /\ hist[m2].class = "failure" /\ outDir[m2].present

OutputNonEmpty == \E n \in PoolNames : outDir[n].present

NoPipelineFailure ==
    \A m \in PoolNames :
        hist[m].prep # "fail" /\ hist[m].extract # "fail" /\ hist[m].upret # "False"

\* C10 as stated: a run that gets past bootstrap returns True if and only if
\* no machine had a preparation, extraction or upload failure.
C10_AsStated ==
    (pc = "done" /\ exit_at # "bootstrap") => (ret <=> NoPipelineFailure)

\* C10, amended: a run that gets past bootstrap returns True if and only if
\* the source root exists, the listing of the output root does not raise and
\* no machine had a preparation, extraction or upload failure; the trigger
\* decision and the two counters have no part in it.
C10_RunResult ==
    (pc = "done" /\ exit_at # "bootstrap") =>
        (ret <=> (exit_at = "end" /\ NoPipelineFailure))

C10_Witness ==
    RunEnded /\ ret /\ failure_count > 0 /\ success_count > 0 /\ marker
    /\ signal_calls[1].ok

\* the machine loop is over (or was skipped for want of machines)
LoopEnded ==
    \/ pc \in {"after_loop", "report", "analytics", "trigger"}
    \/ pc = "done" /\ exit_at \in {"end", "listing"}

OutcomeNames == {"PrepFailed", "ExtractFailed", "UpdateSucceeded",
                 "UpdateFailed+UploadSucceeded", "UpdateFailed+UploadFailed"}

OutcomeIs(m, o) ==
    CASE o = "PrepFailed" -> hist[m].prep = "fail"
      [] o = "ExtractFailed" -> hist[m].extract = "fail"
      [] o = "UpdateSucceeded" -> hist[m].class = "success"
      [] o = "UpdateFailed+UploadSucceeded" ->
            hist[m].class = "failure" /\ hist[m].upret = "True"
      [] o = "UpdateFailed+UploadFailed" ->
            hist[m].class = "failure" /\ hist[m].upret = "False"

Outcomes(m) == {o \in OutcomeNames : OutcomeIs(m, o)}

\* how many of the five outcomes the machine has
OutcomeCount(m) ==
    (IF hist[m].prep = "fail" THEN 1 ELSE 0)
    + (IF hist[m].extract = "fail" THEN 1 ELSE 0)
    + (IF hist[m].class = "success" THEN 1 ELSE 0)
    + (IF hist[m].class = "failure" /\ hist[m].upret = "True" THEN 1 ELSE 0)
    + (IF hist[m].class = "failure" /\ hist[m].upret = "False" THEN 1 ELSE 0)

\* C11: the machines are the directories of the source root in sorted
\* order; each is processed exactly once and ends in exactly one of the
\* five outcomes; a machine is started only when the one before it has its
\* outcome; and the loop is left only after the last machine, whatever
\* failed before.
C11_State ==
    /\ \A i \in 1..Len(machines) :
          LET m == machines[i] IN
          /\ hist[m].processed <= 1
          /\ OutcomeCount(m) <= 1
          /\ (i > 1 /\ hist[m].processed = 1) =>
                OutcomeCount(machines[i - 1]) = 1
          /\ LoopEnded => (hist[m].processed = 1 /\ OutcomeCount(m) = 1)
    /\ pc = "done" =>
          \/ exit_at \in {"end", "listing"}
          \/ \A m \in PoolNames : hist[m].processed = 0

C11_Step ==
    /\ machines' # machines =>
          /\ pc = "discover"
          /\ Len(machines') = Cardinality(srcRoot.dirs)
          /\ \A i \in 1..Len(machines') :
                /\ machines'[i] \in srcRoot.dirs
                /\ i > 1 => LexLess(machines'[i - 1], machines'[i])
    /\ srcRoot' = srcRoot
    /\ pc = "prepare" =>
          /\ hist[machines[idx]].processed = 0
          /\ hist'[machines[idx]].processed = 1
    /\ (pc = "discover" /\ srcRoot.present) =>
          Len(machines') = Cardinality(srcRoot.dirs)

C11_EachMachineOnce == []C11_State /\ [][C11_Step]_vars

C11_Witness ==
    /\ pc = "after_loop"
    /\ machines = <<NamePool[2], NamePool[1]>>
    /\ Outcomes(NamePool[2]) = {"PrepFailed"}
    /\ Outcomes(NamePool[1]) = {"UpdateFailed+UploadFailed"}
    /\ OutcomeCount(NamePool[1]) = 1

\* C12: update_machine_status_counts is called at most once in a run, in
\* the step between the end of the machine loop and the trigger decision,
\* with the run's final success_count and failure_count; once past that
\* step it has been called exactly when success_count + failure_count > 0.
C12_State ==
    /\ Len(analytics_calls) <= 1
    /\ analytics_calls # <<>> =>
          /\ pc \in {"trigger", "done"}
          /\ \A m \in srcRoot.dirs : hist[m].processed = 1
          /\ analytics_calls[1].s = success_count
          /\ analytics_calls[1].f = failure_count
    /\ (pc = "trigger" \/ (pc = "done" /\ exit_at \in {"end", "listing"})) =>
          (Len(analytics_calls) = 1 <=> success_count + failure_count > 0)

C12_Step ==
    /\ analytics_calls' # analytics_calls =>
          /\ pc = "analytics"
          /\ signal_calls = <<>>
          /\ signal_calls' = <<>>
    /\ analytics_calls # <<>> => UNCHANGED <<success_count, failure_count>>

C12_AnalyticsOnce == []C12_State /\ [][C12_Step]_vars

C12_Witness ==
    /\ RunEnded
    /\ Len(analytics_calls) = 1
    /\ analytics_calls[1].s = 1
    /\ analytics_calls[1].f = 1
    /\ Len(signal_calls) = 1

\* the sum of one argument over the calls that met no store error
RECURSIVE OkSum(_, _)
OkSum(calls, field) ==
    IF calls = <<>> THEN 0
    ELSE (IF ~Head(calls).ok THEN 0
          ELSE IF field = "s" THEN Head(calls).s ELSE Head(calls).f)
         + OkSum(Tail(calls), field)

\* C13: a call without a store error creates the absent record with
\* (s, f) and otherwise adds s and f to its two fields, so after any
\* sequence of calls the record holds the sums of the s and of the f of the
\* calls that met no error; the call changes nothing of the pipeline.
C13_State ==
    IF \A i \in 1..Len(analytics_calls) : ~analytics_calls[i].ok
    THEN dbRecord = Missing
    ELSE /\ dbRecord.present
         /\ dbRecord.successful_updates = OkSum(analytics_calls, "s")
         /\ dbRecord.failed_updates = OkSum(analytics_calls, "f")

C13_Step ==
    Len(analytics_calls') = Len(analytics_calls) + 1 =>
        LET call == analytics_calls'[Len(analytics_calls')] IN
        /\ call.ok =>
              /\ dbRecord'.present
              /\ dbRecord'.successful_updates =
                    IF dbRecord.present
                    THEN dbRecord.successful_updates + call.s ELSE call.s
              /\ dbRecord'.failed_updates =
                    IF dbRecord.present
                    THEN dbRecord.failed_updates + call.f ELSE call.f
        /\ ~call.ok => dbRecord' = dbRecord
        /\ UNCHANGED <<success_count, failure_count, overall_success,
                       prep_extract_failures, ret, fsVars, remoteVars>>

C13_RecordHoldsSums == []C13_State /\ [][C13_Step]_vars

C13_Witness ==
    /\ Len(analytics_calls) = 3
    /\ \A i \in 1..3 : analytics_calls[i].ok
    /\ analytics_calls[1].s = 1 /\ analytics_calls[1].f = 2
    /\ analytics_calls[3].s = 2
    /\ dbRecord.successful_updates = 3
    /\ dbRecord.failed_updates = 4

AnalyticsError == analytics_calls # <<>> /\ ~analytics_calls[1].ok
SignalError == signal_calls # <<>> /\ ~signal_calls[1].ok

\* C14: a store error inside update_machine_status_counts and a failed file
\* operation of write_master_signal change nothing of the run's result:
\* the step after the analytics call is the trigger decision whether or not
\* the store raised, the decision returns overall_success whether or not
\* the marker could be written, and a run that ends after such an error
\* has made the trigger decision once and returns True exactly when no
\* machine had a preparation, extraction or upload failure.
C14_State ==
    (RunEnded /\ (AnalyticsError \/ SignalError)) =>
        /\ Len(signal_calls) = 1
        /\ ret = overall_success
        /\ ret <=> NoPipelineFailure

C14_Step ==
    /\ pc = "analytics" =>
          /\ pc' = "trigger"
          /\ UNCHANGED <<overall_success, ret, exit_at, success_count,
                         failure_count, fsVars, signal_calls>>
    /\ (pc = "trigger" /\ rootExists) =>
          /\ pc' = "done"
          /\ exit_at' = "end"
          /\ ret' = overall_success
          /\ Len(signal_calls') = 1
          /\ ~signal_calls'[1].ok => marker' = marker

C14_ErrorsKeepResult == []C14_State /\ [][C14_Step]_vars

C14_Witness ==
    RunEnded /\ AnalyticsError /\ SignalError /\ ret /\ failure_count > 0

\* the run went past cleanup_directories and the output root is missing: the
\* call returned False, for a successful one leaves the root in place (line
\* 340) and nothing in main removes it
CleanupLeftNoRoot ==
    pc = "done" /\ exit_at \notin {"bootstrap", "no_source"} /\ ~rootExists

\* C15 as stated, for the failure that leaves the output root missing: the
\* run still processes every machine and returns True exactly when no
\* machine had a preparation, extraction or upload failure.
C15_AsStated ==
    CleanupLeftNoRoot =>
        /\ \A m \in srcRoot.dirs : hist[m].processed = 1
        /\ ret <=> NoPipelineFailure

\* C16: a failed bootstrap ends the run at once with False: no cleanup, no
\* machine prepared, extracted, classified or uploaded, no analytics call,
\* no trigger decision, and the output root, its directories and the
\* marker are as they were.
C16_State ==
    exit_at = "bootstrap" =>
        /\ pc = "done"
        /\ ~ret
        /\ machines = <<>>
        /\ \A m \in PoolNames : hist[m] = NoHist
        /\ upc = "idle"
        /\ objects = {}
        /\ analytics_calls = <<>>
        /\ dbRecord = Missing
        /\ signal_calls = <<>>

C16_Step ==
    /\ (pc = "bootstrap" /\ pc' # "cleanup") =>
          /\ pc' = "done"
          /\ exit_at' = "bootstrap"
          /\ ~ret'
          /\ UNCHANGED <<fsVars, remoteVars, dbRecord>>
    /\ pc = "done" => UNCHANGED vars

C16_BootstrapAborts == []C16_State /\ [][C16_Step]_vars

C16_Witness ==
    /\ pc = "done"
    /\ exit_at = "bootstrap"
    /\ ~ret
    /\ outDir = StaleDir
    /\ marker
    /\ Cardinality(srcRoot.dirs) = 2

\* C17 as stated: when the source root has no machine directory main
\* returns True, nothing is prepared, extracted, classified or uploaded,
\* update_machine_status_counts is not called and write_master_signal is
\* called with False.
C17_AsStated ==
    (pc = "done" /\ exit_at # "bootstrap" /\ srcRoot.present
        /\ srcRoot.dirs = {}) =>
        /\ ret
        /\ \A m \in PoolNames : hist[m] = NoHist
        /\ objects = {}
        /\ analytics_calls = <<>>
        /\ Len(signal_calls) = 1
        /\ ~signal_calls[1].arg

\* a finished run over three machines of which p failed preparation, s was
\* classified successful and f was classified failed with every file of
\* its output directory uploaded
Scenario(p, s, f) ==
    /\ pc = "done"
    /\ Len(machines) = 3
    /\ hist[p].prep = "fail"
    /\ hist[s].class = "success"
    /\ hist[f].class = "failure"
    /\ hist[f].upret = "True"
    /\ \A file \in outDir[f].files : MinioPath(f, file) \in objects

\* C18 as stated: in that run main returns False, the analytics call is
\* made once with (1, 1), the directory of s is deleted, the directory of f
\* remains and the marker exists at the end.
C18_AsStated ==
    pc = "done" => \A p, s, f \in Machines :
        Scenario(p, s, f) =>
            /\ ~ret
            /\ Len(analytics_calls) = 1
            /\ analytics_calls[1].s = 1 /\ analytics_calls[1].f = 1
            /\ ~outDir[s].present
            /\ outDir[f].present
            /\ marker

\* C18, amended: in that run main returns False, the analytics call is made
\* once with (1, 1), the directory of s is deleted unless rmtree raised, the
\* directory of f remains, write_master_signal is called once with True and
\* the marker exists at the end when that file operation succeeded.
C18_EndToEnd ==
    pc = "done" => \A p, s, f \in Machines :
        Scenario(p, s, f) =>
            /\ exit_at = "end"
            /\ ~ret
            /\ Len(analytics_calls) = 1
            /\ analytics_calls[1].s = 1 /\ analytics_calls[1].f = 1
            /\ hist[s].rm \in {"ok", "raised"}
            /\ outDir[s].present <=> hist[s].rm = "raised"
            /\ outDir[f].present
            /\ Len(signal_calls) = 1
            /\ signal_calls[1].arg
            /\ signal_calls[1].ok => marker

C18_Witness ==
    pc = "done" /\ \E p, s, f \in Machines :
        /\ Scenario(p, s, f)
        /\ ~ret
        /\ outDir[f].files = {CiDebugLog, InstallSetLog}
        /\ ~outDir[s].present
        /\ analytics_calls[1].ok
        /\ signal_calls[1].ok
        /\ marker

\* C19 as stated: sanitize_name applied to its own result returns that
\* result.
C19_AsStated ==
    Len(san_out) >= 2 => san_out[2] = san_out[1]

\* the last character is one of [a-z0-9]
EndsAlnum(s) == s # <<>> /\ IsAlnum(s[Len(s)])

\* the rules in the order the specification gives them
RulesInOrder(name) ==
    LET r1 == Lower(name)
        r2 == ReplaceUnderscoreSpace(r1)
        r3 == FilterValid(r2)
        r4 == Collapse(Collapse(r3, 45), 46)
        r5 == RStrip(LStrip(r4))
        r6 == IF r5 # <<>> /\ ~IsAlnum(r5[1]) THEN <<97>> \o r5 ELSE r5
        r7 == IF r6 # <<>> /\ ~EndsAlnum(r6) THEN r6 \o <<122>> ELSE r6
    IN r7

\* C20 as stated: sanitize_name returns what the rules applied in order
\* give, and a non-empty name made of [a-z0-9] only is returned unchanged.
C20_AsStated ==
    Len(san_out) >= 1 =>
        /\ san_out[1] = RulesInOrder(san_name)
        /\ (san_name # <<>> /\ \A i \in 1..Len(san_name) : IsAlnum(san_name[i]))
              => san_out[1] = san_name

\* a string of [a-z0-9.-] with no "--" and no "..", which is empty or starts
\* and ends with one of [a-z0-9]
WellFormed(s) ==
    /\ \A i \in 1..Len(s) : IsAlnum(s[i]) \/ s[i] = 46 \/ s[i] = 45
    /\ \A i \in 1..(Len(s) - 1) :
          ~(s[i] = 45 /\ s[i + 1] = 45) /\ ~(s[i] = 46 /\ s[i + 1] = 46)
    /\ s # <<>> => IsAlnum(s[1]) /\ EndsAlnum(s)

\* C21: sanitize_name returns a string for every argument (it raises for
\* none); the empty string gives the empty string; every result contains
\* only characters of [a-z0-9.-], no "--" and no "..", and a non-empty
\* result starts and ends with a character of [a-z0-9].
C21_WellFormedOutput ==
    /\ Len(san_out) >= 1 /\ san_name = <<>> => san_out[1] = <<>>
    /\ \A i \in 1..Len(san_out) :
          /\ DOMAIN san_out[i] = 1..Len(san_out[i])
          /\ WellFormed(san_out[i])

\* "My_Machine 01" has been sanitized to "my-machine-01z"
C21_Witness ==
    /\ san_name = ExampleName
    /\ Len(san_out) >= 1
    /\ san_out[1] = <<109, 121, 45, 109, 97, 99, 104, 105, 110, 101, 45, 48,
                      49, 122>>

\* the counts the analytics record holds
Stored ==
    [s |-> dbRecord.successful_updates, f |-> dbRecord.failed_updates]

\* C22: with one instance every call of update_machine_status_counts that
\* meets no store error adds its deltas to the record; the deltas of a call
\* are lost only to the duplicate key of an insert_one, which takes a second
\* instance that read the record as absent as well.  The record never holds
\* more than the sum of the deltas.
C22_LossNeedsTwoInstances ==
    /\ Cardinality(instances) = 1 => Stored = delta_sum /\ lost_calls = 0
    /\ lost_calls = 0 => Stored = delta_sum
    /\ Stored.s <= delta_sum.s /\ Stored.f <= delta_sum.f
    /\ \A i \in Instances :
          inst[i].at = "found" /\ inst[i].status_doc = "some"
              => dbRecord.present

\* two instances have each made one call, both read the record as absent,
\* the insert_one of instance 2 met the duplicate key, and the record holds
\* less than the sum of the two calls' deltas
C22_Witness ==
    /\ instances = {1, 2}
    /\ started = 2
    /\ inst[1].outcome = "stored"
    /\ inst[2].outcome = "duplicate"
    /\ lost_calls = 1
    /\ dbRecord.present
    /\ Stored.s < delta_sum.s
    /\ Stored.f < delta_sum.f

\* the bucket holds what it held when the running call began and the keys,
\* under prefix p, of the files the call has uploaded
HoldsUploads(p) ==
    /\ objects0 \subseteq objects
    /\ \A file \in uploaded_files : [prefix |-> p, path |-> file] \in objects
    /\ \A o \in objects \ objects0 :
          o.prefix = p /\ o.path \in uploaded_files

\* C23: during a call of upload_to_minio the bucket holds the objects it
\* held when the call began and one key "<sanitized machine name>/<path>"
\* per file whose attempt succeeded; a call that returns False after
\* uploading k > 0 files leaves those k objects in the bucket.
C23_State ==
    InCall =>
        /\ HoldsUploads(sanitize_name(machine_name))
        /\ (upc = "returned" /\ ~uret /\ upload_count > 0) =>
              Cardinality(uploaded_files) = upload_count

\* no step removes an object, and only a successful attempt adds one: the
\* key of the file the walk is at
C23_Step ==
    /\ objects \subseteq objects'
    /\ objects' # objects =>
          /\ upc = "attempt"
          /\ upload_count' = upload_count + 1
          /\ Cardinality(objects') = Cardinality(objects) + 1
          /\ Cardinality(uploaded_files') = Cardinality(uploaded_files) + 1

C23_NoObjectRemoved == []C23_State /\ [][C23_Step]_vars

\* the call for the second failed machine returned False after one of its
\* two files was uploaded, and the bucket holds that object next to the
\* objects of the first machine
C23_Witness ==
    /\ upc = "returned"
    /\ ~uret
    /\ upload_count = 1
    /\ total_files = 2
    /\ objects0 # {}
    /\ objects # objects0
    /\ objects0 \subseteq objects

\* an entry f"{machine_name} (upload)" of the failure list
IsUploadEntry(e) ==
    /\ Len(e) >= Len(UploadSuffix)
    /\ SubSeq(e, Len(e) - Len(UploadSuffix) + 1, Len(e)) = UploadSuffix

UploadEntries ==
    Cardinality({i \in 1..Len(prep_extract_failures) :
                    IsUploadEntry(prep_extract_failures[i])})

\* the entries that record a failed preparation or extraction
PrepExtractEntries == Len(prep_extract_failures) - UploadEntries

\* C24: when the machine loop ends, success_count + failure_count + the
\* number of preparation and extraction failures recorded equals the number
\* of machines discovered, and the failure list has at most failure_count
\* "(upload)" entries; before each iteration the same sum is the number of
\* machines already processed.
C24_CountedOnce ==
    /\ pc = "after_loop" =>
          /\ success_count + failure_count + PrepExtractEntries = Len(machines)
          /\ UploadEntries <= failure_count
    /\ pc = "prepare" =>
          /\ success_count + failure_count + PrepExtractEntries = idx - 1
          /\ UploadEntries <= failure_count

\* the loop over two machines has ended: one failed extraction, the other
\* was classified failed and its upload failed too
C24_Witness ==
    /\ pc = "after_loop"
    /\ Len(machines) = 2
    /\ success_count = 0
    /\ failure_count = 1
    /\ Len(prep_extract_failures) = 2
    /\ UploadEntries = 1
    /\ \E m \in Machines : hist[m].extract = "fail"

\* the successful attempt of the running call stored a key the bucket
\* already held
Overwrites ==
    /\ upc = "attempt"
    /\ upload_count' = upload_count + 1
    /\ objects' = objects

\* C25 as stated: the key prefixes of two different machines of a run are
\* distinct and non-empty, and no upload stores a key another machine's
\* upload stored.
C25_AsStated ==
    /\ \A i, j \in 1..Len(machines) :
          i < j => /\ sanitize_name(machines[i]) # sanitize_name(machines[j])
                   /\ sanitize_name(machines[i]) # <<>>
                   /\ sanitize_name(machines[j]) # <<>>
    /\ InCall =>
          \A file \in uploaded_files :
              [prefix |-> sanitize_name(machine_name), path |-> file]
                  \notin objects0

\* C25: two machines of a run whose directory names are well-formed already
\* get distinct, non-empty key prefixes; an upload stores a key that another
\* machine's upload stored only when that machine was processed earlier in
\* the run, was classified failed, and its name sanitizes to the same prefix.
C25_Step ==
    /\ machines' # machines =>
          \A i, j \in 1..Len(machines') :
              (i < j /\ WellFormed(machines'[i]) /\ WellFormed(machines'[j])) =>
                  /\ sanitize_name(machines'[i]) # sanitize_name(machines'[j])
                  /\ sanitize_name(machines'[i]) # <<>>
                  /\ sanitize_name(machines'[j]) # <<>>
    /\ Overwrites =>
          \E i \in 1..(idx - 1) :
              /\ machines[i] # machine_name
              /\ hist[machines[i]].class = "failure"
              /\ sanitize_name(machines[i]) = sanitize_name(machine_name)
              /\ ~(WellFormed(machines[i]) /\ WellFormed(machine_name))

C25_SamePrefixOnly == [][C25_Step]_vars

\* the machines "A" and "a" were both classified failed; the upload of "a"
\* has stored "a/ciDebug.log", the key the upload of "A" had stored
C25_Witness ==
    /\ InCall
    /\ machine_name = NamePool[3]
    /\ hist[NamePool[2]].class = "failure"
    /\ CiDebugLog \in uploaded_files
    /\ [prefix |-> <<97>>, path |-> CiDebugLog] \in objects0

\* C26 as stated: when main returns after write_master_signal has run, it
\* has reported "Master.py will be executed next" iff the NEEDS_MASTER marker
\* exists.
C26_AsStated ==
    RunEnded => (reported = "will_run" <=> marker)

====
